---- MODULE Spec2Model ----
(***************************************************************************)
(* Model of src/handler.py: the readiness gate (wait_for_service), the     *)
(* retrying inference client (run_inference), the runtime-facing handler   *)
(* and the concurrency advisor (concurrency_modifier).                     *)
(*                                                                         *)
(* Durations are in milliseconds (0.1 s = 100, 0.2 s = 200).  An HTTP      *)
(* exchange is a record [status, err, body, json]: err names the exception *)
(* the aiohttp call raised ("" when a response arrived), status is the     *)
(* response status, json says whether the body decodes as JSON.            *)
(***************************************************************************)
EXTENDS Integers, Sequences, FiniteSets, TLC

VARIABLES
    maxAttempts,   \* RETRY_ATTEMPTS as configured for this run
    mainPc,        \* position of the __main__ block: "gate", "ready", "serving"
    gate,          \* activation of wait_for_service
    jobs,          \* one handler activation per runtime job slot
    advisor        \* the two most recent concurrency_modifier calls

vars == <<maxAttempts, mainPc, gate, jobs, advisor>>

-----------------------------------------------------------------------------
(* Program constants *)

RETRY_ATTEMPTS == 10

RETRY_DELAY == 100

POLL_INTERVAL == 200

LOG_EVERY == 15

max_concurrency == 5

min_concurrency == 1

optimal_concurrency == 3

(* Bounds of the model *)

NumJobs == 2

MaxAttempts == 2

MaxPolls == 3

MaxGatePolls == 31

MaxConcurrencyIn == 10

Jobs == 1..NumJobs

-----------------------------------------------------------------------------
(* HTTP exchanges *)

TransientStatuses == {502, 503, 504}

OtherErrorStatuses == {400, 404, 500}

Bodies == {"images-a", "images-b"}

Resp(status, err, body, json) ==
    [status |-> status, err |-> err, body |-> body, json |-> json]

NoResp == Resp(0, "", "", FALSE)

\* exceptions session.post / session.get can raise: connection refused, DNS
\* failure (both aiohttp.ClientError) and the total timeout (asyncio.TimeoutError)
TransportErrors == {"ClientConnectorError", "ClientConnectorDNSError", "TimeoutError"}

PostResponses ==
    {Resp(200, "", b, TRUE) : b \in Bodies}
        \cup {Resp(200, "", "not-json", FALSE)}
        \cup {Resp(s, "", "", TRUE) : s \in TransientStatuses \cup OtherErrorStatuses}
        \cup {Resp(0, e, "", FALSE) : e \in TransportErrors}

GetResponses ==
    {Resp(s, "", "", TRUE) : s \in {200, 404, 503}}
        \cup {Resp(0, e, "", FALSE) : e \in {"ClientConnectorError", "TimeoutError", "ValueError"}}

\* variant: the timeout counts as a client error
IsClientErrorOrTimeout(exc) ==
    exc \in {"ClientConnectorError", "ClientConnectorDNSError", "ClientResponseError",
             "TimeoutError"}

\* the classes derived from aiohttp.ClientError
IsClientError(exc) ==
    exc \in {"ClientConnectorError", "ClientConnectorDNSError", "ClientResponseError"}

-----------------------------------------------------------------------------
(* wait_for_service *)

GateStart ==
    [pc |-> "get", retries |-> 0, gets |-> 0, sleeps |-> 0, sleptMs |-> 0,
     notices |-> 0, errors |-> 0, last |-> NoResp]

\* the activation is gone once asyncio.run has returned and the runtime started
GateClosed == [GateStart EXCEPT !.pc = "closed"]

\* variant: the status is compared with the text "200", which no status equals
IsReadyNever(status) == FALSE

\* variant: any status below 500 counts as ready
IsReadyBelow500(status) == status < 500

\* line 28: the only test that ends the loop
IsReady(status) == status = 200

\* line 30: except (aiohttp.ClientError, asyncio.TimeoutError)
GateCountsRetry(exc) == IsClientError(exc) \/ exc = "TimeoutError"

\* variant: the catch-all clause is missing
GateCatchesNothing(exc) == FALSE

\* line 36: except Exception
GateCatches(exc) == TRUE

\* line 34: the throttle of the "not ready" notice
GateLogs(retries) == retries % LOG_EVERY = 0

\* one GET and the classification of its outcome (lines 26-37)
GateStep(r) ==
    /\ mainPc = "gate"
    /\ gate.pc = "get"
    /\ LET g == [gate EXCEPT !.gets = @ + 1, !.last = r] IN
       IF r.err = ""
       THEN IF IsReady(r.status)
            THEN /\ gate' = [g EXCEPT !.pc = "returned"]
                 /\ mainPc' = "ready"
            ELSE /\ gate' = [g EXCEPT !.pc = "sleep"]
                 /\ mainPc' = mainPc
       ELSE IF GateCountsRetry(r.err)
            THEN /\ gate' = [g EXCEPT !.pc = "sleep",
                                      !.retries = @ + 1,
                                      !.notices = IF GateLogs(gate.retries + 1)
                                                  THEN @ + 1 ELSE @]
                 /\ mainPc' = mainPc
       ELSE IF GateCatches(r.err)
            THEN /\ gate' = [g EXCEPT !.pc = "sleep", !.errors = @ + 1]
                 /\ mainPc' = mainPc
            ELSE /\ gate' = [g EXCEPT !.pc = "raised"]
                 /\ mainPc' = "crashed"
    /\ UNCHANGED <<maxAttempts, jobs, advisor>>

\* a poll of the program's start-up: the service answers 200 at the latest
\* after MaxPolls polls
GatePoll(r) ==
    /\ gate.gets < MaxPolls \/ (r.err = "" /\ r.status = 200)
    /\ GateStep(r)

\* a poll of a long start-up: the service answers 200 at the latest after
\* MaxGatePolls polls
GatePollLong(r) ==
    /\ gate.gets < MaxGatePolls \/ (gate.gets = MaxGatePolls /\ r.err = "" /\ r.status = 200)
    /\ GateStep(r)

\* line 39: await asyncio.sleep(0.2), then the next iteration
GateSleep ==
    /\ mainPc = "gate"
    /\ gate.pc = "sleep"
    /\ gate' = [gate EXCEPT !.pc = "get", !.sleeps = @ + 1, !.sleptMs = @ + POLL_INTERVAL]
    /\ UNCHANGED <<maxAttempts, mainPc, jobs, advisor>>

\* lines 124-130: the two prints, then runpod.serverless.start
StartServing ==
    /\ mainPc = "ready"
    /\ mainPc' = "serving"
    /\ gate' = GateClosed
    /\ UNCHANGED <<maxAttempts, jobs, advisor>>

\* variant: the runtime is started without waiting for the gate
RuntimeStartedEarly == TRUE

\* line 127: jobs are delivered only by the started runtime
RuntimeStarted == mainPc = "serving"

-----------------------------------------------------------------------------
(* run_inference and handler *)

INFER_URL == "http://127.0.0.1:3000/sdapi/v1/txt2img"

Exc(type, attempts, cause) == [type |-> type, attempts |-> attempts, cause |-> cause]

NoExc == Exc("", 0, "")

NoOut == [kind |-> "none", body |-> "", exc |-> NoExc]

NoText == [text |-> "", attempts |-> 0, cause |-> ""]

NoRet == [kind |-> "none", body |-> "", error |-> NoText, status |-> ""]

NoSent == [url |-> "", json |-> 0]

IdleJob ==
    [pc |-> "idle", hasInput |-> FALSE, input |-> 0, attempt |-> 0, posts |-> 0,
     sent |-> NoSent, slept |-> <<>>, last |-> NoResp, prior |-> TRUE,
     out |-> NoOut, ret |-> NoRet]

\* the job descriptors the runtime may deliver to slot j: with an "input"
\* payload (the slot's own) or without the "input" key
JobsFor(j) == {[hasInput |-> TRUE, input |-> j], [hasInput |-> FALSE, input |-> 0]}

\* line 53: response.status in [502, 503, 504]
IsTransient(status) == status \in TransientStatuses

\* variant: the bound is off by one
NotFinalOffByOne(attempt) == attempt < maxAttempts

\* lines 53 and 60: attempt < RETRY_ATTEMPTS - 1
NotFinal(attempt) == attempt < maxAttempts - 1

\* variant: the exponent is one too high
BackoffDelayDouble(attempt) == RETRY_DELAY * 2^(attempt + 1)

\* variant: linear instead of exponential backoff
BackoffDelayLinear(attempt) == RETRY_DELAY * (attempt + 1)

\* lines 54 and 61: RETRY_DELAY * (2 ** attempt)
BackoffDelay(attempt) == RETRY_DELAY * 2^attempt

\* variant: only server errors fail the status check
RaiseForStatusFrom500(status) == status >= 500

\* variants: the status check is missing; the status check rejects 2xx too
RaiseForStatusNever(status) == FALSE

RaiseForStatusFrom200(status) == status >= 200

\* line 57: response.raise_for_status() raises ClientResponseError from 400 on
RaiseForStatus(status) == status >= 400

\* the exception the try block raises for exchange r once the transient branch
\* was not taken ("" when it returns the decoded body): lines 49, 57, 58
RaisedBy(r) ==
    IF r.err # "" THEN r.err
    ELSE IF RaiseForStatus(r.status) THEN "ClientResponseError"
    ELSE IF ~r.json THEN "JSONDecodeError"
    ELSE ""

\* str(e) of the exceptions that reach handler
StrOf(exc) ==
    IF exc.type = "Exception"
    THEN [text |-> "Failed to run inference after", attempts |-> exc.attempts,
          cause |-> exc.cause]
    ELSE IF exc.type = "KeyError" THEN [text |-> "'input'", attempts |-> 0, cause |-> ""]
    ELSE IF exc.type = "JSONDecodeError"
    THEN [text |-> "Expecting value", attempts |-> 0, cause |-> ""]
    ELSE NoText

\* variant: only the failure raised by run_inference itself is caught
HandlerCatchesOwn(type) == type = "Exception"

\* line 88: except Exception
HandlerCatches(type) == TRUE

\* lines 82-89: what handler hands to the runtime for an outcome of its try block
HandlerReturn(out) ==
    IF out.kind = "return"
    THEN [kind |-> "result", body |-> out.body, error |-> NoText, status |-> ""]
    ELSE IF HandlerCatches(out.exc.type)
    THEN [kind |-> "report", body |-> "", error |-> StrOf(out.exc), status |-> "failed"]
    ELSE [kind |-> "exception", body |-> "", error |-> NoText, status |-> ""]

Returned(body) == [kind |-> "return", body |-> body, exc |-> NoExc]

Raised(exc) == [kind |-> "raise", body |-> "", exc |-> exc]

Done(job, out) == [job EXCEPT !.pc = "done", !.out = out, !.ret = HandlerReturn(out)]

\* handler is called with a job: line 83, then run_inference up to the loop head
StartJob(j, job) ==
    /\ RuntimeStarted
    /\ jobs[j].pc = "idle"
    /\ LET h == [IdleJob EXCEPT !.hasInput = job.hasInput, !.input = job.input] IN
       jobs' = [jobs EXCEPT ![j] =
                  IF ~job.hasInput THEN Done(h, Raised(Exc("KeyError", 0, "")))
                  ELSE IF 0 < maxAttempts THEN [h EXCEPT !.pc = "post"]
                  ELSE Done(h, Raised(Exc("Exception", maxAttempts, "")))]
    /\ UNCHANGED <<maxAttempts, mainPc, gate, advisor>>

\* variant: the request of a retry carries the attempt index
PostWithAttempt(j) ==
    /\ jobs[j].pc = "post"
    /\ jobs' = [jobs EXCEPT ![j] =
                  [@ EXCEPT !.pc = "await", !.posts = @ + 1, !.last = NoResp,
                            !.sent = [url |-> INFER_URL,
                                      json |-> jobs[j].input + jobs[j].attempt]]]
    /\ UNCHANGED <<maxAttempts, mainPc, gate, advisor>>

\* variant: the backoff is a blocking sleep, so no request goes out while any
\* job sleeps
PostBlocking(j) ==
    /\ \A k \in DOMAIN jobs : jobs[k].pc # "sleep"
    /\ jobs[j].pc = "post"
    /\ jobs' = [jobs EXCEPT ![j] =
                  [@ EXCEPT !.pc = "await", !.posts = @ + 1, !.last = NoResp,
                            !.sent = [url |-> INFER_URL, json |-> jobs[j].input]]]
    /\ UNCHANGED <<maxAttempts, mainPc, gate, advisor>>

\* lines 49-52: the POST of the current attempt goes out
Post(j) ==
    /\ jobs[j].pc = "post"
    /\ jobs' = [jobs EXCEPT ![j] =
                  [@ EXCEPT !.pc = "await", !.posts = @ + 1, !.last = NoResp,
                            !.sent = [url |-> INFER_URL, json |-> jobs[j].input]]]
    /\ UNCHANGED <<maxAttempts, mainPc, gate, advisor>>

Backoff(job, r) ==
    [job EXCEPT !.pc = "sleep", !.last = r,
                !.slept = Append(@, BackoffDelay(job.attempt))]

\* lines 53-63: the exchange of the current attempt ends with r
Receive(j, r) ==
    /\ jobs[j].pc = "await"
    /\ LET job == jobs[j]
           exc == RaisedBy(r)
           got == [job EXCEPT !.last = r]
       IN jobs' = [jobs EXCEPT ![j] =
            IF r.err = "" /\ IsTransient(r.status) /\ NotFinal(job.attempt)
            THEN Backoff(job, r)
            ELSE IF exc = "" THEN Done(got, Returned(r.body))
            ELSE IF IsClientError(exc)
            THEN IF NotFinal(job.attempt)
                 THEN Backoff(job, r)
                 ELSE Done(got, Raised(Exc("Exception", maxAttempts, exc)))
            ELSE Done(got, Raised(Exc(exc, 0, "")))]
    /\ UNCHANGED <<maxAttempts, mainPc, gate, advisor>>

\* the backoff sleep ends; line 47 takes the next attempt, or the loop is over
\* and line 65 raises
Wake(j) ==
    /\ jobs[j].pc = "sleep"
    /\ LET job == jobs[j]
           nxt == [job EXCEPT !.attempt = @ + 1,
                              !.prior = @ /\ job.last.err = "" /\ IsTransient(job.last.status)]
       IN jobs' = [jobs EXCEPT ![j] =
            IF job.attempt + 1 < maxAttempts
            THEN [nxt EXCEPT !.pc = "post"]
            ELSE Done(nxt, Raised(Exc("Exception", maxAttempts, "")))]
    /\ UNCHANGED <<maxAttempts, mainPc, gate, advisor>>

\* the runtime takes the value handler returned; the slot is free again
Collect(j) ==
    /\ jobs[j].pc = "done"
    /\ jobs' = [jobs EXCEPT ![j] = IdleJob]
    /\ UNCHANGED <<maxAttempts, mainPc, gate, advisor>>

-----------------------------------------------------------------------------
(* concurrency_modifier *)

Min(a, b) == IF a <= b THEN a ELSE b

\* variant: the current level is passed through, capped from above only
concurrency_modifier_passthrough(current_concurrency) ==
    Min(current_concurrency, max_concurrency)

\* lines 92-118
concurrency_modifier(current_concurrency) == Min(optimal_concurrency, max_concurrency)

ConcurrencyInputs == 0..MaxConcurrencyIn

NoAdvice == [calls |-> 0, arg |-> 0, ret |-> 0, prevArg |-> 0, prevRet |-> 0]

\* the runtime asks for the concurrency level
ConcurrencyModifier(x) ==
    /\ RuntimeStarted
    /\ advisor' = [calls |-> Min(advisor.calls + 1, 2), arg |-> x,
                   ret |-> concurrency_modifier(x),
                   prevArg |-> advisor.arg, prevRet |-> advisor.ret]
    /\ UNCHANGED <<maxAttempts, mainPc, gate, jobs>>

-----------------------------------------------------------------------------
(* Specifications *)

\* the program with NumJobs concurrent jobs, for every retry budget up to MaxAttempts
Init ==
    /\ maxAttempts \in 0..MaxAttempts
    /\ mainPc = "gate"
    /\ gate = GateStart
    /\ jobs = [j \in Jobs |-> IdleJob]
    /\ advisor = NoAdvice

Next ==
    \/ \E r \in GetResponses : GatePoll(r)
    \/ GateSleep
    \/ StartServing
    \/ \E j \in Jobs : \E job \in JobsFor(j) : StartJob(j, job)
    \/ \E j \in Jobs : Post(j)
    \/ \E j \in Jobs : \E r \in PostResponses : Receive(j, r)
    \/ \E j \in Jobs : Wake(j)
    \/ \E j \in Jobs : Collect(j)

Spec == Init /\ [][Next]_vars

\* the program as shipped (RETRY_ATTEMPTS = 10), the runtime delivering one job
\* at a time
InitProd ==
    /\ maxAttempts = RETRY_ATTEMPTS
    /\ mainPc = "gate"
    /\ gate = GateStart
    /\ jobs = [j \in Jobs |-> IdleJob]
    /\ advisor = NoAdvice

NextProd ==
    \/ \E r \in GetResponses : GatePoll(r)
    \/ GateSleep
    \/ StartServing
    \/ \E job \in JobsFor(1) : StartJob(1, job)
    \/ Post(1)
    \/ \E r \in PostResponses : Receive(1, r)
    \/ Wake(1)
    \/ Collect(1)

SpecProd == InitProd /\ [][NextProd]_vars

\* the started runtime asking the advisor, with every input up to MaxConcurrencyIn
InitAdvisor ==
    /\ maxAttempts = RETRY_ATTEMPTS
    /\ mainPc = "serving"
    /\ gate = GateClosed
    /\ jobs = [j \in Jobs |-> IdleJob]
    /\ advisor = NoAdvice

NextAdvisor == \E x \in ConcurrencyInputs : ConcurrencyModifier(x)

SpecAdvisor == InitAdvisor /\ [][NextAdvisor]_vars

\* the start-up alone, with up to MaxGatePolls failed polls; the event loop runs
\* the one coroutine, so a pending sleep ends and a pending GET is answered
\* (its total timeout is 120 s)
NextGate ==
    \/ \E r \in GetResponses : GatePollLong(r)
    \/ GateSleep

SpecGate ==
    /\ InitProd
    /\ [][NextGate]_vars
    /\ WF_vars(GateSleep)
    /\ WF_vars(\E r \in GetResponses : GatePollLong(r))

\* the shipped program, one job at a time, with every POST answered (the
\* session's total timeout ends it at the latest) and every sleep ending
SpecProdFair ==
    /\ InitProd
    /\ [][NextProd]_vars
    /\ WF_vars(Post(1))
    /\ WF_vars(\E r \in PostResponses : Receive(1, r))
    /\ WF_vars(Wake(1))

-----------------------------------------------------------------------------
(* Properties *)

IsSuccess(r) == r.err = "" /\ r.status = 200 /\ r.json

IsTransientResp(r) == r.err = "" /\ r.status \in TransientStatuses

\* run_inference was entered by the job in slot j and has ended
Ended(j) == jobs[j].pc = "done" /\ jobs[j].hasInput

\* the failure raised when the attempts are used up (line 63 or line 65)
IsExhausted(out) ==
    /\ out.kind = "raise"
    /\ out.exc.type = "Exception"
    /\ out.exc.attempts = maxAttempts

\* C1: with maxAttempts >= 1 and a backend that answers every POST of a call
\* with 502, 503 or 504, the call ends only after exactly maxAttempts POSTs, and
\* it ends in the exhausted-retries failure, never in a result.
C1_AlwaysTransientExhausts ==
    \A j \in Jobs :
        (/\ maxAttempts >= 1
         /\ Ended(j)
         /\ jobs[j].prior
         /\ IsTransientResp(jobs[j].last))
        => /\ jobs[j].posts = maxAttempts
           /\ IsExhausted(jobs[j].out)
           /\ jobs[j].ret.kind = "report"

C1_Witness ==
    \E j \in Jobs :
        /\ maxAttempts >= 2
        /\ Ended(j)
        /\ jobs[j].prior
        /\ IsTransientResp(jobs[j].last)
        /\ jobs[j].posts = maxAttempts
        /\ IsExhausted(jobs[j].out)

\* C2: when the first k POSTs of a call (0 <= k < maxAttempts) got a transient
\* status and the next one a success, the call has issued exactly k+1 POSTs,
\* slept k times, and returns the body of that last response; k = 0 means one
\* POST and no sleep, and a success on the last attempt is still a success.
C2_SuccessAfterKTransient ==
    \A j \in Jobs :
        (/\ Ended(j)
         /\ jobs[j].prior
         /\ IsSuccess(jobs[j].last))
        => /\ jobs[j].attempt < maxAttempts
           /\ jobs[j].posts = jobs[j].attempt + 1
           /\ Len(jobs[j].slept) = jobs[j].attempt
           /\ jobs[j].out = Returned(jobs[j].last.body)
           /\ jobs[j].ret.kind = "result"
           /\ jobs[j].ret.body = jobs[j].last.body

C2_Witness ==
    \E j \in Jobs :
        /\ maxAttempts >= 2
        /\ Ended(j)
        /\ jobs[j].prior
        /\ IsSuccess(jobs[j].last)
        /\ jobs[j].attempt = maxAttempts - 1
        /\ jobs[j].posts = maxAttempts
        /\ jobs[j].ret.body = "images-b"

\* C3: the i-th backoff sleep of a call (the one before attempt i, i >= 1) lasts
\* RETRY_DELAY * 2^(i-1), whichever path slept; a call has slept once per
\* attempt it left behind, so not before attempt 0 and not after the last
\* attempt; 503, 503, 200 gives three POSTs and the sleeps <<100, 200>>.
C3_BackoffDurations ==
    \A j \in Jobs :
        LET job == jobs[j] IN
        /\ \A i \in 1..Len(job.slept) : job.slept[i] = RETRY_DELAY * 2^(i - 1)
        /\ Len(job.slept) = job.attempt + (IF job.pc = "sleep" THEN 1 ELSE 0)
        /\ job.pc \in {"post", "await"} => job.posts = Len(job.slept) + (IF job.pc = "await" THEN 1 ELSE 0)
        /\ maxAttempts >= 1 => Len(job.slept) <= maxAttempts - 1
        /\ (Ended(j) /\ job.prior /\ IsSuccess(job.last) /\ job.posts = 3)
              => job.slept = <<RETRY_DELAY, 2 * RETRY_DELAY>>

C3_Witness ==
    \E j \in Jobs :
        /\ Ended(j)
        /\ jobs[j].prior
        /\ IsSuccess(jobs[j].last)
        /\ jobs[j].posts = 3
        /\ jobs[j].slept = <<100, 200>>

\* C4: handler hands the runtime the backend's decoded body or a report
\* {error, status: "failed"}, never an exception, whatever the job and the
\* backend did; a connection refused on the last of the 10 attempts gives a
\* report whose text names 10 attempts.
C4_HandlerNeverRaises ==
    \A j \in Jobs :
        LET job == jobs[j] IN
        /\ job.pc # "done" => job.ret = NoRet
        /\ job.pc = "done" =>
             /\ job.ret.kind \in {"result", "report"}
             /\ job.ret.kind = "result" =>
                  IsSuccess(job.last) /\ job.ret.body = job.last.body
             /\ job.ret.kind = "report" =>
                  job.ret.status = "failed" /\ job.ret.error = StrOf(job.out.exc)
             /\ (job.last.err = "ClientConnectorError" /\ job.posts = RETRY_ATTEMPTS) =>
                  /\ job.ret.kind = "report"
                  /\ job.ret.error.text = "Failed to run inference after"
                  /\ job.ret.error.attempts = 10

C4_Witness ==
    \E j \in Jobs :
        /\ jobs[j].pc = "done"
        /\ jobs[j].last.err = "ClientConnectorError"
        /\ jobs[j].posts = 10
        /\ jobs[j].ret.kind = "report"
        /\ jobs[j].ret.error.attempts = 10

\* C5 (as claimed): a transport error (connection refused, DNS failure,
\* timeout) on an attempt that is not the last is followed by a sleep of
\* RETRY_DELAY * 2^attempt; on the last attempt the call fails with a failure
\* that wraps the error.
C5_TransportErrorRetried ==
    \A j \in Jobs :
        LET job == jobs[j] IN
        (job.pc \in {"sleep", "done"} /\ job.last.err \in TransportErrors) =>
            IF job.posts < maxAttempts
            THEN /\ job.pc = "sleep"
                 /\ job.slept[Len(job.slept)] = RETRY_DELAY * 2^job.attempt
            ELSE /\ job.pc = "done"
                 /\ IsExhausted(job.out)
                 /\ job.out.exc.cause = job.last.err

\* C6 (as claimed): a call that ends in failure has issued exactly maxAttempts
\* POSTs.
C6_FailureOnlyOnFinalAttempt ==
    \A j \in Jobs :
        (Ended(j) /\ jobs[j].out.kind = "raise") => jobs[j].posts = maxAttempts

IsReadyResp(r) == r.err = "" /\ r.status = 200

\* C7: wait_for_service returns exactly when a GET has answered 200: it is
\* never still polling or sleeping after a 200, it has returned only after a
\* poll whose outcome was status 200, and once it has returned it issues no
\* further GET and takes no further sleep.
C7_ReturnsExactlyOn200 ==
    /\ [](/\ gate.pc \in {"get", "sleep"} => ~IsReadyResp(gate.last)
          /\ gate.pc = "returned" =>
               /\ IsReadyResp(gate.last)
               /\ gate.sleeps = gate.gets - 1
          /\ mainPc = "ready" <=> gate.pc = "returned"
          /\ mainPc = "serving" => gate.pc = "closed")
    /\ [][gate.pc = "returned" => (gate' = gate \/ gate' = GateClosed)]_vars

C7_Witness ==
    /\ mainPc = "ready"
    /\ gate.pc = "returned"
    /\ gate.gets = 4
    /\ gate.retries >= 1
    /\ gate.errors >= 1
    /\ gate.retries + gate.errors = 2

\* C8: wait_for_service has no failure exit: every poll that did not answer
\* 200 (transport failure, timeout, non-200 status, any other error) leaves it
\* sleeping, each such poll is followed by one sleep of POLL_INTERVAL, and the
\* sleep is followed by the next GET.
C8_GateNeverFails ==
    /\ [](/\ mainPc # "crashed"
          /\ gate.pc \in {"get", "sleep", "returned", "closed"}
          /\ gate.pc = "get" => gate.sleeps = gate.gets
          /\ gate.pc = "sleep" => gate.sleeps = gate.gets - 1 /\ ~IsReadyResp(gate.last)
          /\ gate.sleptMs = POLL_INTERVAL * gate.sleeps)
    /\ [][gate.pc = "sleep" =>
            /\ gate'.pc = "get"
            /\ gate'.gets = gate.gets
            /\ gate'.sleptMs = gate.sleptMs + 200]_vars
    /\ [][(gate.pc = "get" /\ gate'.gets = gate.gets + 1 /\ ~IsReadyResp(gate'.last))
            => gate'.pc = "sleep"]_vars

C8_Witness ==
    /\ gate.pc = "get"
    /\ gate.gets = 3
    /\ gate.sleeps = 3
    /\ gate.retries = 1
    /\ gate.errors = 1
    /\ gate.last.err = "ValueError"

JobActive(j) == jobs[j].pc # "idle"

\* C9: no job is handled before wait_for_service has seen a 200 and returned:
\* a job is active only in the serving phase, the serving phase is entered only
\* from a returned gate whose last poll answered 200, and from then on the gate
\* is never entered again.
C9_GateBeforeJobs ==
    /\ []((\E j \in Jobs : JobActive(j)) => (mainPc = "serving" /\ gate.pc = "closed"))
    /\ [][(mainPc # "serving" /\ mainPc' = "serving")
            => (mainPc = "ready" /\ gate.pc = "returned" /\ IsReadyResp(gate.last))]_vars
    /\ [][mainPc = "serving" => (mainPc' = "serving" /\ gate' = GateClosed)]_vars

C9_Witness ==
    /\ mainPc = "serving"
    /\ \E j \in Jobs : jobs[j].pc = "await" /\ jobs[j].posts >= 1

Clamp(v, lo, hi) == IF v < lo THEN lo ELSE IF v > hi THEN hi ELSE v

\* C10: every call of concurrency_modifier returns optimal_concurrency clamped
\* to [min_concurrency, max_concurrency], whatever its argument, so two calls
\* give the same value; a call changes nothing but the value handed back.
C10_AdviceFixedAndBounded ==
    /\ advisor.calls >= 1 =>
         /\ advisor.ret >= min_concurrency
         /\ advisor.ret <= max_concurrency
         /\ advisor.ret = Clamp(optimal_concurrency, min_concurrency, max_concurrency)
    /\ advisor.calls >= 2 => advisor.prevRet = advisor.ret
    /\ \A j \in Jobs : jobs[j] = IdleJob
    /\ mainPc = "serving" /\ gate = GateClosed

C10_Witness ==
    /\ advisor.calls = 2
    /\ advisor.prevArg = 0
    /\ advisor.arg = 10
    /\ advisor.ret = 3

IsOtherErrorResp(r) == r.err = "" /\ r.status \in OtherErrorStatuses

\* C11: a response with an error status outside 502/503/504 (400, 404, 500) is
\* never returned as a result and never ends the call early: before the last
\* attempt it is followed by a sleep of RETRY_DELAY * 2^attempt, on the last
\* attempt the call fails with the wrapped failure.
C11_OtherErrorStatusRetried ==
    \A j \in Jobs :
        LET job == jobs[j] IN
        (job.pc \in {"sleep", "done"} /\ IsOtherErrorResp(job.last)) =>
            IF job.posts < maxAttempts
            THEN /\ job.pc = "sleep"
                 /\ job.posts = job.attempt + 1
                 /\ job.slept[Len(job.slept)] = RETRY_DELAY * 2^job.attempt
            ELSE /\ job.pc = "done"
                 /\ IsExhausted(job.out)
                 /\ job.out.exc.cause = "ClientResponseError"
                 /\ job.ret.kind = "report"

C11_Witness ==
    \E j \in Jobs :
        /\ jobs[j].pc = "done"
        /\ jobs[j].last.status = 400
        /\ jobs[j].posts = 10
        /\ Len(jobs[j].slept) = 9
        /\ ~jobs[j].prior
        /\ IsExhausted(jobs[j].out)

\* C12 (as claimed): a call that has used all maxAttempts attempts and ends in
\* failure raises the failure that states maxAttempts and carries the error of
\* the final attempt.
C12_ExhaustedCarriesCountAndCause ==
    \A j \in Jobs :
        LET job == jobs[j] IN
        (/\ maxAttempts >= 1
         /\ Ended(j)
         /\ job.out.kind = "raise"
         /\ job.posts = maxAttempts)
        => /\ IsExhausted(job.out)
           /\ job.out.exc.cause = RaisedBy(job.last)
           /\ job.ret.error.attempts = maxAttempts

\* C13: the service is ready at the latest from poll MaxGatePolls + 1 on, and
\* with the polling loop scheduled fairly wait_for_service returns; until a
\* GET has answered 200 it neither returns nor fails but stays in its loop,
\* where every sleep is followed by a GET and every GET by its outcome.
C13_GateLiveness ==
    /\ <>(gate.pc = "returned" /\ IsReadyResp(gate.last))
    /\ (gate.pc = "sleep") ~> (gate.pc = "get")
    /\ (gate.pc = "get") ~> (gate.pc \in {"sleep", "returned"})
    /\ [][(mainPc = "gate" /\ ~IsReadyResp(gate'.last))
            => (mainPc' = "gate" /\ gate'.pc \in {"get", "sleep"})]_vars

C13_Witness ==
    /\ gate.pc = "returned"
    /\ mainPc = "ready"
    /\ gate.gets = 32
    /\ gate.sleeps = 31

\* the polls of this activation that did not answer 200
FailedPolls == gate.gets - (IF gate.pc = "returned" THEN 1 ELSE 0)

\* C19 (as claimed): the "not ready" notice has been printed once for every 15
\* failed polls, a failed poll being any poll that did not answer 200 because
\* of a transport failure, a timeout or a non-200 status.
C19_NoticeEvery15FailedPolls ==
    (gate.pc \in {"get", "sleep", "returned"} /\ gate.errors = 0)
        => gate.notices = FailedPolls \div 15

\* C14: concurrent handler calls do not depend on each other: whatever the
\* other jobs are doing (sleeping, waiting for a response, ended in failure),
\* a job's next step can be taken, a waiting job can still get a success and
\* return it, a free slot can take a new job, and a step of one job leaves
\* every other job's attempt counter, POST count and outcome as they were.
C14_JobsIndependent ==
    /\ [](\A j \in Jobs :
            /\ jobs[j].pc = "post" => ENABLED Post(j)
            /\ jobs[j].pc = "sleep" => ENABLED Wake(j)
            /\ jobs[j].pc = "await" =>
                 /\ \A r \in PostResponses : ENABLED Receive(j, r)
                 /\ \A b \in Bodies :
                      ENABLED (/\ Receive(j, Resp(200, "", b, TRUE))
                               /\ jobs'[j].ret.kind = "result"
                               /\ jobs'[j].ret.body = b)
            /\ (jobs[j].pc = "idle" /\ mainPc = "serving") =>
                 \A job \in JobsFor(j) : ENABLED StartJob(j, job))
    /\ [][\A j, k \in Jobs :
            (j # k /\ jobs'[j] # jobs[j]) => jobs'[k] = jobs[k]]_vars

C14_Witness ==
    \E j, k \in Jobs :
        /\ j # k
        /\ maxAttempts >= 2
        /\ jobs[j].pc = "done"
        /\ jobs[j].ret.kind = "report"
        /\ jobs[j].posts = maxAttempts
        /\ jobs[k].pc = "done"
        /\ jobs[k].ret.kind = "result"
        /\ jobs[k].posts = maxAttempts

RECURSIVE SumSeq(_)
SumSeq(q) == IF q = <<>> THEN 0 ELSE Head(q) + SumSeq(Tail(q))

RECURSIVE BackoffSum(_)
\* sum of RETRY_DELAY * 2^i for i in 0..n
BackoffSum(n) == IF n < 0 THEN 0 ELSE RETRY_DELAY * 2^n + BackoffSum(n - 1)

\* C15: a call never issues more than maxAttempts POSTs, never sleeps more than
\* maxAttempts - 1 times, and never sleeps longer in total than the sum of
\* RETRY_DELAY * 2^i for i in 0..maxAttempts-2; with every POST answered and
\* every sleep ending, a call that has started ends.
C15_BoundedAndTerminates ==
    /\ [](\A j \in Jobs :
            /\ jobs[j].posts <= maxAttempts
            /\ Len(jobs[j].slept) <= maxAttempts - 1
            /\ SumSeq(jobs[j].slept) <= BackoffSum(maxAttempts - 2))
    /\ \A j \in Jobs : (jobs[j].pc \in {"post", "await", "sleep"}) ~> (jobs[j].pc = "done")

C15_Witness ==
    \E j \in Jobs :
        /\ jobs[j].pc = "done"
        /\ jobs[j].posts = 10
        /\ Len(jobs[j].slept) = 9
        /\ SumSeq(jobs[j].slept) = 51100

\* C16: every POST of a call goes to the inference endpoint with the job's
\* "input" as its body: whatever attempt is under way, the request last sent is
\* that payload, and the payload a call holds never changes while it runs.
C16_PayloadVerbatim ==
    /\ [](\A j \in Jobs :
            /\ jobs[j].posts = 0 => jobs[j].sent = NoSent
            /\ jobs[j].posts >= 1 =>
                 /\ jobs[j].hasInput
                 /\ jobs[j].input = j
                 /\ jobs[j].sent = [url |-> "http://127.0.0.1:3000/sdapi/v1/txt2img",
                                    json |-> jobs[j].input])
    /\ [][\A j \in Jobs :
            jobs[j].pc \in {"post", "await", "sleep"} =>
                /\ jobs'[j].input = jobs[j].input
                /\ jobs'[j].posts = jobs[j].posts + 1 =>
                     jobs'[j].sent = [url |-> INFER_URL, json |-> jobs[j].input]
                /\ jobs'[j].posts = jobs[j].posts => jobs'[j].sent = jobs[j].sent]_vars

C16_Witness ==
    \E j \in Jobs :
        /\ jobs[j].pc = "await"
        /\ jobs[j].attempt = 1
        /\ jobs[j].posts = 2
        /\ jobs[j].input = 2
        /\ jobs[j].sent.json = 2

IsUncaughtResp(r) == r.err = "TimeoutError" \/ (r.err = "" /\ r.status = 200 /\ ~r.json)

\* C17: a total timeout of the POST or a 200 whose body is not JSON ends the
\* call on the attempt it happens, first, middle or last: no sleep and no POST
\* follow, the error leaves unwrapped (no attempt count), and handler returns
\* the report with status "failed".
C17_NonClientErrorEndsCall ==
    \A j \in Jobs :
        LET job == jobs[j] IN
        (job.pc \in {"sleep", "done"} /\ IsUncaughtResp(job.last)) =>
            /\ job.pc = "done"
            /\ job.posts = job.attempt + 1
            /\ Len(job.slept) = job.attempt
            /\ job.out.kind = "raise"
            /\ job.out.exc =
                 Exc(IF job.last.err = "" THEN "JSONDecodeError" ELSE "TimeoutError", 0, "")
            /\ job.ret.kind = "report"
            /\ job.ret.status = "failed"
            /\ job.ret.error.attempts = 0
            /\ job.ret.error.text # "Failed to run inference after"

C17_Witness ==
    \E j \in Jobs :
        /\ jobs[j].pc = "done"
        /\ jobs[j].last.err = "TimeoutError"
        /\ jobs[j].attempt = 3
        /\ jobs[j].posts = 4
        /\ jobs[j].ret.kind = "report"

\* the failure of line 65: the exhausted failure that names no underlying error
IsFallThrough(out) == IsExhausted(out) /\ out.exc.cause = ""

\* C18: with maxAttempts >= 1 no call ends in the fall-through failure of line
\* 65 and no sleep is taken on the last attempt; with maxAttempts = 0 every call
\* ends in it, without a POST.
C18_FallThroughOnlyForZero ==
    \A j \in Jobs :
        /\ (Ended(j) /\ IsFallThrough(jobs[j].out)) =>
             (maxAttempts = 0 /\ jobs[j].posts = 0)
        /\ (Ended(j) /\ maxAttempts = 0) =>
             (IsFallThrough(jobs[j].out) /\ jobs[j].posts = 0)
        /\ jobs[j].pc = "sleep" => jobs[j].attempt + 1 < maxAttempts

C18_Witness ==
    \E j \in Jobs :
        /\ maxAttempts = 0
        /\ Ended(j)
        /\ IsFallThrough(jobs[j].out)
        /\ jobs[j].posts = 0
        /\ jobs[j].ret.kind = "report"

====
